---- MODULE Spec2Model ----
(***************************************************************************)
(* Model of api/vllm_routes/completion.py: the /completions handler        *)
(* create_completion (request checks, engine.generate, the non-streaming   *)
(* loop with its disconnect check, the final Completion), the pure         *)
(* function create_logprobs, and generate_completion_stream_generator      *)
(* driven through the memory object stream handed to EventSourceResponse.  *)
(***************************************************************************)
EXTENDS Integers, Sequences, FiniteSets, TLC

\* ------------------------------------------------------------------ bounds
MaxTokens == 2       \* largest request.max_tokens of a request with two choices
LongRun == 12        \* largest request.max_tokens of a request with one choice
MaxLen == 3          \* longest argument list handed to create_logprobs
MaxOffset == 2       \* largest initial_text_offset handed to create_logprobs

\* ----------------------------------------------------------- Python values
\* Optional[T]: None is the empty tuple, a present value x is <<x>>.
None == <<>>
Some(x) == <<x>>

\* U+FFFD, the character output.text.replace("�", "") removes
RC == "U+FFFD"

\* str.replace(RC, ""): texts are sequences of characters
Strip(s) == SelectSeq(s, LAMBDA c : c # RC)

\* s[m:] of Python for m >= 0
SliceFrom(s, m) == IF m >= Len(s) THEN <<>> ELSE SubSeq(s, m + 1, Len(s))

\* `if request.suffix:` is false for None and for the empty string
Truthy(optstr) == optstr # None /\ optstr[1] # <<>>

RECURSIVE SumSeq(_)
SumSeq(s) == IF s = <<>> THEN 0 ELSE Head(s) + SumSeq(Tail(s))

Min(a, b) == IF a <= b THEN a ELSE b

\* ---------------------------------------------------------------- tokenizer
\* tokenizer.convert_ids_to_tokens on the two-token vocabulary of the model:
\* display texts of different lengths
Vocab == {1, 2}
convert_ids_to_tokens(i) == IF i = 1 THEN <<"a">> ELSE <<"b", "c">>

\* ----------------------------------------------------------- create_logprobs
EmptyLogprobs == [text_offset |-> <<>>, token_logprobs |-> <<>>,
                  tokens |-> <<>>, top_logprobs |-> <<>>]

\* the dict comprehension of lines 153-158: candidate display text -> logprob
TopLogprobs(id_logprob) ==
    [t \in {convert_ids_to_tokens(i) : i \in DOMAIN id_logprob} |->
        LET i == CHOOSE j \in DOMAIN id_logprob : convert_ids_to_tokens(j) = t
        IN id_logprob[i]]

\* text_offset appended at one iteration of the loop (lines 147-150)
NextOffsetByOne(text_offset, last_token_len, initial_text_offset) ==
    IF Len(text_offset) = 0 THEN initial_text_offset
    ELSE text_offset[Len(text_offset)] + 1
NextOffset(text_offset, last_token_len, initial_text_offset) ==
    IF Len(text_offset) = 0 THEN initial_text_offset
    ELSE text_offset[Len(text_offset)] + last_token_len

\* the loop over zip(token_ids, id_logprobs), from position k on; raised is
\* the KeyError of id_logprob[token_id]
RECURSIVE LogprobsLoop(_, _, _, _, _, _)
LogprobsLoop(k, token_ids, id_logprobs, initial_text_offset, logprobs, last_token_len) ==
    IF k > Min(Len(token_ids), Len(id_logprobs))
    THEN [raised |-> FALSE, logprobs |-> logprobs]
    ELSE LET token_id == token_ids[k]
             id_logprob == id_logprobs[k]
             token == convert_ids_to_tokens(token_id)
         IN IF token_id \notin DOMAIN id_logprob
            THEN [raised |-> TRUE, logprobs |-> EmptyLogprobs]
            ELSE LogprobsLoop(k + 1, token_ids, id_logprobs, initial_text_offset,
                   [tokens |-> Append(logprobs.tokens, token),
                    token_logprobs |-> Append(logprobs.token_logprobs, id_logprob[token_id]),
                    text_offset |-> Append(logprobs.text_offset,
                        NextOffset(logprobs.text_offset, last_token_len, initial_text_offset)),
                    top_logprobs |-> Append(logprobs.top_logprobs, TopLogprobs(id_logprob))],
                   Len(token))

create_logprobs_from_second(token_ids, id_logprobs, initial_text_offset) ==
    LogprobsLoop(2, token_ids, id_logprobs, initial_text_offset, EmptyLogprobs, 0)
create_logprobs(token_ids, id_logprobs, initial_text_offset) ==
    LogprobsLoop(1, token_ids, id_logprobs, initial_text_offset, EmptyLogprobs, 0)

\* -------------------------------------------------------------------- state
VARIABLES
    request,            \* CompletionCreateParams: echo, suffix, stream, logprobs, n, max_tokens
    prompt_token_ids,   \* token_ids returned by get_model_inputs
    pc,                 \* position of create_completion
    http_status,        \* 0 while running, else the status of the answer
    request_id,         \* None until line 56 draws it
    generate_calls,     \* request ids engine.generate was called with
    abort_calls,        \* request ids engine.abort was called with
    seqs,               \* the engine's cumulative state of each choice
    monotonic,          \* per choice: every update so far extended the text
    disconnected,       \* what raw_request.is_disconnected() returns
    res,                \* loop variable `res` of the path that runs
    final_res,          \* final_res of the non-streaming path
    response,           \* the Completion returned by the non-streaming path
    num_snapshots,      \* snapshots taken from result_generator so far
    checks,             \* results of the is_disconnected() calls made so far
    previous_texts,     \* generate_completion_stream_generator's lists
    previous_num_tokens,
    gen_pc,             \* where the stream generator is suspended
    pos,                \* position in res.outputs of the entry being encoded
    delta_text,         \* delta_text of the entry being encoded
    pending,            \* chunk the publisher took from the generator, not yet sent
    chan,               \* buffer of the memory object stream
    emitted,            \* every chunk yielded so far, with the snapshot it came from
    delivered,          \* number of chunks the transport has received
    call                \* a call of create_logprobs on its own: arguments, result

engine_vars == <<generate_calls, abort_calls, seqs, monotonic>>
agg_vars == <<final_res, response, checks>>
stream_vars == <<previous_texts, previous_num_tokens, gen_pc, pos, delta_text,
                 pending, chan, emitted, delivered>>
vars == <<request, call, prompt_token_ids, pc, http_status, request_id, disconnected,
          res, num_snapshots, engine_vars, agg_vars, stream_vars>>

\* ------------------------------------------------------------------ requests
RequestIds == {"cmpl-1", "cmpl-2"}
Suffixes == {None, Some(<<>>), Some(<<"s">>)}
Prompts == {<<1>>, <<1, 2>>}
ChoiceCounts == {0, 1, 2}

\* the requests of the model: a request for two choices generates at most
\* MaxTokens tokens per choice, a request for one choice at most Longest
Requests(Longest) ==
    {r \in [echo : BOOLEAN, suffix : Suffixes, stream : BOOLEAN,
            logprobs : {None, Some(0)}, n : ChoiceCounts, max_tokens : 1..Longest] :
        r.n > 1 => r.max_tokens <= MaxTokens}

NoCall == [token_ids |-> <<>>, id_logprobs |-> <<>>, initial_text_offset |-> 0,
           result |-> None]

InitWith(Reqs, Calls) ==
    /\ request \in Reqs
    /\ call \in Calls
    /\ prompt_token_ids = None
    /\ pc = "start"
    /\ http_status = 0
    /\ request_id = None
    /\ generate_calls = <<>>
    /\ abort_calls = <<>>
    /\ seqs = <<>>
    /\ monotonic = <<>>
    /\ disconnected = FALSE
    /\ res = None
    /\ final_res = None
    /\ response = None
    /\ num_snapshots = 0
    /\ checks = <<>>
    /\ previous_texts = <<>>
    /\ previous_num_tokens = <<>>
    /\ gen_pc = "unstarted"
    /\ pos = 0
    /\ delta_text = <<>>
    /\ pending = None
    /\ chan = <<>>
    /\ emitted = <<>>
    /\ delivered = 0

Init == InitWith(Requests(LongRun), {NoCall})

\* ------------------------------------------------------------------- engine
\* One engine step of one running choice: the token it samples, the text the
\* detokenizer adds for it, whether a stop condition ends the choice, and
\* whether the stop string is cut off the text (the text then shrinks).
\* `candidates` are the token ids of the candidate map reported for the step.
AllMoves ==
    {[token_id |-> 1, piece |-> <<"a">>, stop |-> s, truncate |-> FALSE,
      candidates |-> Vocab] : s \in BOOLEAN}
    \cup {[token_id |-> 2, piece |-> <<RC>>, stop |-> s, truncate |-> FALSE,
           candidates |-> Vocab] : s \in BOOLEAN}
    \cup {[token_id |-> 1, piece |-> <<>>, stop |-> TRUE, truncate |-> TRUE,
           candidates |-> Vocab]}
PlainMoves ==
    {[token_id |-> 1, piece |-> <<"a">>, stop |-> s, truncate |-> FALSE,
      candidates |-> Vocab] : s \in BOOLEAN}

Choices == 0..(request.n - 1)

Front(s) == IF s = <<>> THEN <<>> ELSE SubSeq(s, 1, Len(s) - 1)
IsPrefix(s, t) == Len(s) <= Len(t) /\ SubSeq(t, 1, Len(s)) = s

\* the candidate map the engine reports for a step: token id -> logprob
CandidateMap(m) == [i \in m.candidates |-> 0 - i]

NewSeq(c) == [index |-> c, text |-> <<>>, token_ids |-> <<>>,
              logprobs |-> IF request.logprobs = None THEN None ELSE Some(<<>>),
              finish_reason |-> "None"]

StepSeq(s, m) ==
    LET token_ids == Append(s.token_ids, m.token_id)
    IN [index |-> s.index,
        text |-> IF m.truncate THEN Front(s.text) ELSE s.text \o m.piece,
        token_ids |-> token_ids,
        logprobs |-> IF s.logprobs = None THEN None
                     ELSE Some(Append(s.logprobs[1], CandidateMap(m))),
        finish_reason |-> IF m.stop THEN "stop"
                          ELSE IF Len(token_ids) >= request.max_tokens THEN "length"
                          ELSE "None"]

Running(c) == seqs[c].finish_reason = "None"
EngineDone == \A c \in Choices : ~Running(c)

\* the orders in which a RequestOutput can list the choices: any, or by index
AnyOrder == {o \in [1..request.n -> Choices] : \A i, j \in 1..request.n : o[i] = o[j] => i = j}
ByIndex == {[k \in 1..request.n |-> k - 1]}

\* every (new engine state, RequestOutput) the next step of the engine can give
EngineSteps(Moves, Orders) ==
    LET ok(c, m) == IF Running(c) THEN m.truncate => seqs[c].text # <<>>
                    ELSE m = CHOOSE x \in Moves : TRUE
        new(mv) == [c \in Choices |-> IF Running(c) THEN StepSeq(seqs[c], mv[c]) ELSE seqs[c]]
    IN {[seqs |-> new(mv),
         output |-> [outputs |-> [k \in 1..request.n |-> new(mv)[o[k]]],
                     prompt_token_ids |-> prompt_token_ids[1]]] :
            mv \in {f \in [Choices -> Moves] : \A c \in Choices : ok(c, f[c])},
            o \in Orders}

Monotonic(new) == [c \in Choices |-> monotonic[c] /\ IsPrefix(seqs[c].text, new[c].text)]

\* ------------------------------------------------- create_completion, intake
\* lines 46-49
RejectEcho ==
    /\ pc = "start"
    /\ request.echo
    /\ pc' = "rejected"
    /\ http_status' = 400
    /\ UNCHANGED <<request, call, prompt_token_ids, request_id, disconnected, res,
                   num_snapshots, engine_vars, agg_vars, stream_vars>>

\* lines 51-53
RejectSuffix ==
    /\ pc = "start"
    /\ ~request.echo
    /\ Truthy(request.suffix)
    /\ pc' = "rejected"
    /\ http_status' = 400
    /\ UNCHANGED <<request, call, prompt_token_ids, request_id, disconnected, res,
                   num_snapshots, engine_vars, agg_vars, stream_vars>>

AcceptedUnchecked == pc = "start"
Accepted == pc = "start" /\ ~request.echo /\ ~Truthy(request.suffix)

\* lines 55-60: get_model_inputs answers with an error of its own
InputError ==
    /\ Accepted
    /\ \E id \in RequestIds : request_id' = Some(id)
    /\ pc' = "input_error"
    /\ UNCHANGED <<request, call, prompt_token_ids, http_status, disconnected, res,
                   num_snapshots, engine_vars, agg_vars, stream_vars>>

\* SamplingParams refuses n < 1 with a ValueError
SamplingParamsValid == request.n >= 1

\* lines 64-76
RejectSamplingParams ==
    /\ Accepted
    /\ ~SamplingParamsValid
    /\ \E id \in RequestIds : request_id' = Some(id)
    /\ \E p \in Prompts : prompt_token_ids' = Some(p)
    /\ pc' = "rejected"
    /\ http_status' = 400
    /\ UNCHANGED <<request, call, disconnected, res, num_snapshots, engine_vars,
                   agg_vars, stream_vars>>

\* lines 55-94 / 55-97: the request passes, engine.generate is called, and the
\* handler either returns the EventSourceResponse or enters the loop of line 98
StartGenerate ==
    /\ Accepted
    /\ SamplingParamsValid
    /\ \E id \in RequestIds :
        /\ request_id' = Some(id)
        /\ generate_calls' = Append(generate_calls, id)
    /\ \E p \in Prompts : prompt_token_ids' = Some(p)
    /\ seqs' = [c \in Choices |-> NewSeq(c)]
    /\ monotonic' = [c \in Choices |-> TRUE]
    /\ pc' = IF request.stream THEN "streaming" ELSE "aggregating"
    /\ previous_texts' = IF request.stream THEN [c \in Choices |-> <<>>] ELSE previous_texts
    /\ previous_num_tokens' = IF request.stream THEN [c \in Choices |-> 0]
                              ELSE previous_num_tokens
    /\ gen_pc' = IF request.stream THEN "next" ELSE gen_pc
    /\ UNCHANGED <<request, call, http_status, disconnected, res, num_snapshots,
                   abort_calls, agg_vars, pos, delta_text, pending, chan, emitted,
                   delivered>>

\* the client goes away while the request runs
ClientDisconnect ==
    /\ pc \in {"aggregating", "check", "streaming"}
    /\ ~disconnected
    /\ disconnected' = TRUE
    /\ UNCHANGED <<request, call, prompt_token_ids, pc, http_status, request_id, res,
                   num_snapshots, engine_vars, agg_vars, stream_vars>>

\* --------------------------------------------- create_completion, lines 96-131
\* lines 107-118
BuildChoicePlaceholder(output) ==
    [index |-> output.index,
     text |-> Strip(output.text),
     finish_reason |-> "stop",
     logprobs |-> IF request.logprobs # None
                  THEN Some(create_logprobs(output.token_ids, output.logprobs[1], 0).logprobs)
                  ELSE None]
BuildChoice(output) ==
    LET text == Strip(output.text)
    IN [index |-> output.index,
        text |-> text,
        finish_reason |-> output.finish_reason,
        logprobs |-> IF request.logprobs # None
                     THEN Some(create_logprobs(output.token_ids, output.logprobs[1], 0).logprobs)
                     ELSE None]

\* lines 120-126
BuildUsageFirstChoice(fr) ==
    LET num_prompt_tokens == Len(fr.prompt_token_ids)
        num_generated_tokens == Len(fr.outputs[1].token_ids)
    IN [prompt_tokens |-> num_prompt_tokens,
        completion_tokens |-> num_generated_tokens,
        total_tokens |-> num_prompt_tokens + num_generated_tokens]
BuildUsage(fr) ==
    LET num_prompt_tokens == Len(fr.prompt_token_ids)
        num_generated_tokens ==
            SumSeq([k \in 1..Len(fr.outputs) |-> Len(fr.outputs[k].token_ids)])
    IN [prompt_tokens |-> num_prompt_tokens,
        completion_tokens |-> num_generated_tokens,
        total_tokens |-> num_prompt_tokens + num_generated_tokens]

\* lines 109-111: create_logprobs raises for a choice of final_res
BuildRaisesNever(fr) == FALSE
BuildRaises(fr) ==
    /\ request.logprobs # None
    /\ \E k \in 1..Len(fr.outputs) :
           create_logprobs(fr.outputs[k].token_ids, fr.outputs[k].logprobs[1], 0).raised

\* lines 106-131
BuildCompletion(fr) ==
    [id |-> request_id[1],
     choices |-> [k \in 1..Len(fr.outputs) |-> BuildChoice(fr.outputs[k])],
     object |-> "text_completion",
     usage |-> BuildUsage(fr)]

\* line 98: the loop takes the next RequestOutput
AggNext(Moves, Orders) ==
    /\ pc = "aggregating"
    /\ ~EngineDone
    /\ \E e \in EngineSteps(Moves, Orders) :
        /\ seqs' = e.seqs
        /\ monotonic' = Monotonic(e.seqs)
        /\ res' = Some(e.output)
    /\ num_snapshots' = num_snapshots + 1
    /\ pc' = "check"
    /\ UNCHANGED <<request, call, prompt_token_ids, http_status, request_id, disconnected,
                   generate_calls, abort_calls, agg_vars, stream_vars>>

\* line 99: await raw_request.is_disconnected()
is_disconnected_never == FALSE
is_disconnected_always == TRUE
is_disconnected == disconnected

\* lines 99-103
AggCheckRecordsFirst ==
    /\ pc = "check"
    /\ checks' = Append(checks, disconnected)
    /\ final_res' = res
    /\ IF is_disconnected
       THEN /\ abort_calls' = Append(abort_calls, request_id[1])
            /\ pc' = "aborted"
       ELSE /\ pc' = "aggregating"
            /\ UNCHANGED abort_calls
    /\ UNCHANGED <<request, call, prompt_token_ids, http_status, request_id, disconnected,
                   res, num_snapshots, generate_calls, seqs, monotonic, response,
                   stream_vars>>
AggCheck ==
    /\ pc = "check"
    /\ checks' = Append(checks, disconnected)
    /\ IF is_disconnected
       THEN /\ abort_calls' = Append(abort_calls, request_id[1])
            /\ pc' = "aborted"
            /\ UNCHANGED final_res
       ELSE /\ final_res' = res
            /\ pc' = "aggregating"
            /\ UNCHANGED abort_calls
    /\ UNCHANGED <<request, call, prompt_token_ids, http_status, request_id, disconnected,
                   res, num_snapshots, generate_calls, seqs, monotonic, response,
                   stream_vars>>

\* lines 98, 105-131: result_generator is exhausted and the Completion is
\* built; a KeyError of create_logprobs leaves the handler, which the server
\* answers with status 500
AggFinish ==
    /\ pc = "aggregating"
    /\ EngineDone
    /\ final_res # None
    /\ IF BuildRaises(final_res[1])
       THEN /\ pc' = "failed"
            /\ http_status' = 500
            /\ UNCHANGED response
       ELSE /\ response' = Some(BuildCompletion(final_res[1]))
            /\ http_status' = 200
            /\ pc' = "completed"
    /\ UNCHANGED <<request, call, prompt_token_ids, request_id, disconnected, res,
                   num_snapshots, engine_vars, final_res, checks, stream_vars>>

\* ------------------------------------------ generate_completion_stream_generator
\* the fields of Completion and CompletionChoice that may be None
Nullable == {"logprobs", "usage"}

\* model_dump_json(): every field is written, None as null
ModelDumpJson(obj) == obj

\* model_dump_json(exclude_none=True): a field that is None is left out
\* (in the Completion and in each of its choices)
ModelDumpJsonKeepNone(obj) == obj
ModelDumpJsonExcludeNone(obj) ==
    LET dump(o) == [f \in {g \in DOMAIN o : g \in Nullable => o[g] # None} |-> o[f]]
        top == dump(obj)
    IN [top EXCEPT !.choices = [k \in 1..Len(top.choices) |-> dump(top.choices[k])]]

\* lines 186-192 and 200-206: the one-choice Completion of a chunk
ChunkChoiceByPosition(i, text, logprobs) ==
    [index |-> pos - 1, text |-> text, finish_reason |-> "stop", logprobs |-> logprobs]
ChunkChoiceVerbatim(i, text, logprobs) ==
    [index |-> i, text |-> text, finish_reason |-> res[1].outputs[pos].finish_reason,
     logprobs |-> logprobs]
ChunkChoice(i, text, logprobs) ==
    [index |-> i, text |-> text, finish_reason |-> "stop", logprobs |-> logprobs]
Chunk(choice) ==
    [id |-> request_id[1], choices |-> <<choice>>, object |-> "text_completion",
     usage |-> None]

\* lines 170-172
EntryText(output) == Strip(output.text)
DeltaTextAfterUpdate(output) == SliceFrom(EntryText(output), Len(EntryText(output)))
DeltaTextUnstripped(output) == SliceFrom(output.text, Len(previous_texts[output.index]))
DeltaText(output) == SliceFrom(EntryText(output), Len(previous_texts[output.index]))

\* lines 174-181
EntryLogprobsWhole(output) ==
    IF request.logprobs # None
    THEN create_logprobs(output.token_ids, output.logprobs[1], 0)
    ELSE [raised |-> FALSE, logprobs |-> EmptyLogprobs]
EntryLogprobs(output) ==
    LET i == output.index
    IN IF request.logprobs # None
       THEN create_logprobs(SliceFrom(output.token_ids, previous_num_tokens[i]),
                            SliceFrom(output.logprobs[1], previous_num_tokens[i]),
                            Len(previous_texts[i]))
       ELSE [raised |-> FALSE, logprobs |-> EmptyLogprobs]

\* lines 195-199
TerminalLogprobs == IF request.logprobs # None THEN Some(EmptyLogprobs) ELSE None

\* line 195
FinishedAlways(output) == TRUE
Finished(output) == output.finish_reason # "None"

Output == res[1].outputs[pos]

\* what the generator records of a chunk it yields
Emitted(json, terminal) ==
    [json |-> json, terminal |-> terminal,
     snapshot |-> num_snapshots, position |-> pos,
     finish_reason |-> res[1].outputs[pos].finish_reason,
     listed |-> [k \in 1..Len(res[1].outputs) |-> res[1].outputs[k].index]]

\* where the generator goes after the last chunk of an entry (lines 167, 169)
AfterEntryAgain ==
    /\ gen_pc' = "entry"
    /\ pos' = IF pos < Len(res[1].outputs) THEN pos + 1 ELSE 1
AfterEntry ==
    /\ gen_pc' = IF pos < Len(res[1].outputs) THEN "entry" ELSE "next"
    /\ pos' = IF pos < Len(res[1].outputs) THEN pos + 1 ELSE pos

\* line 167: the generator, asked for its next chunk, takes the next RequestOutput
GenNext(Moves, Orders) ==
    /\ pc = "streaming"
    /\ gen_pc = "next"
    /\ pending = None
    /\ ~EngineDone
    /\ \E e \in EngineSteps(Moves, Orders) :
        /\ seqs' = e.seqs
        /\ monotonic' = Monotonic(e.seqs)
        /\ res' = Some(e.output)
    /\ num_snapshots' = num_snapshots + 1
    /\ pos' = 1
    /\ gen_pc' = "entry"
    /\ UNCHANGED <<request, call, prompt_token_ids, pc, http_status, request_id,
                   disconnected, generate_calls, abort_calls, agg_vars,
                   previous_texts, previous_num_tokens, delta_text, pending, chan,
                   emitted, delivered>>

\* line 167: result_generator is exhausted and the generator returns
GenExhausted ==
    /\ pc = "streaming"
    /\ gen_pc = "next"
    /\ pending = None
    /\ EngineDone
    /\ gen_pc' = "done"
    /\ UNCHANGED <<request, call, prompt_token_ids, pc, http_status, request_id,
                   disconnected, res, num_snapshots, engine_vars, agg_vars,
                   previous_texts, previous_num_tokens, pos, delta_text, pending,
                   chan, emitted, delivered>>

\* lines 169-193: one entry of res.outputs, up to the yield of its content chunk
GenContent ==
    /\ pc = "streaming"
    /\ gen_pc = "entry"
    /\ pending = None
    /\ LET output == Output
           i == output.index
           lp == EntryLogprobs(output)
           json == ModelDumpJson(Chunk(ChunkChoice(i, DeltaText(output),
                       IF request.logprobs # None THEN Some(lp.logprobs) ELSE None)))
       IN IF lp.raised
          THEN /\ gen_pc' = "failed"
               /\ UNCHANGED <<previous_texts, previous_num_tokens, pos, delta_text,
                              pending, emitted>>
          ELSE /\ delta_text' = DeltaText(output)
               /\ previous_texts' = [previous_texts EXCEPT ![i] = EntryText(output)]
               /\ previous_num_tokens' =
                      [previous_num_tokens EXCEPT ![i] = Len(output.token_ids)]
               /\ pending' = Some(json)
               /\ emitted' = Append(emitted, Emitted(json, FALSE))
               /\ IF Finished(output)
                  THEN gen_pc' = "terminal" /\ pos' = pos
                  ELSE AfterEntry
    /\ UNCHANGED <<request, call, prompt_token_ids, pc, http_status, request_id,
                   disconnected, res, num_snapshots, engine_vars, agg_vars, chan,
                   delivered>>

\* lines 195-207: the terminal chunk of an entry that carries a finish reason
GenTerminal ==
    /\ pc = "streaming"
    /\ gen_pc = "terminal"
    /\ pending = None
    /\ LET json == ModelDumpJsonExcludeNone(
                       Chunk(ChunkChoice(Output.index, delta_text, TerminalLogprobs)))
       IN /\ pending' = Some(json)
          /\ emitted' = Append(emitted, Emitted(json, TRUE))
    /\ AfterEntry
    /\ UNCHANGED <<request, call, prompt_token_ids, pc, http_status, request_id,
                   disconnected, res, num_snapshots, engine_vars, agg_vars,
                   previous_texts, previous_num_tokens, delta_text, chan, delivered>>

\* ------------------------------------------------- lines 84-94: the transport
\* line 85: anyio.create_memory_object_stream(10)
max_buffer_size == 10

\* send() on the memory object stream blocks while the buffer is full
CanSendAlways(buffer) == TRUE
CanSend(buffer) == Len(buffer) < max_buffer_size

\* get_event_publisher: the chunk taken from the generator goes into send_chan
PublisherSend ==
    /\ pc = "streaming"
    /\ pending # None
    /\ CanSend(chan)
    /\ chan' = Append(chan, pending[1])
    /\ pending' = None
    /\ UNCHANGED <<request, call, prompt_token_ids, pc, http_status, request_id,
                   disconnected, res, num_snapshots, engine_vars, agg_vars,
                   previous_texts, previous_num_tokens, gen_pc, pos, delta_text,
                   emitted, delivered>>

\* EventSourceResponse takes the next chunk from recv_chan
TransportReceive ==
    /\ pc = "streaming"
    /\ chan # <<>>
    /\ chan' = Tail(chan)
    /\ delivered' = delivered + 1
    /\ UNCHANGED <<request, call, prompt_token_ids, pc, http_status, request_id,
                   disconnected, res, num_snapshots, engine_vars, agg_vars,
                   previous_texts, previous_num_tokens, gen_pc, pos, delta_text,
                   pending, emitted>>

Next ==
    \/ RejectEcho
    \/ RejectSuffix
    \/ InputError
    \/ RejectSamplingParams
    \/ StartGenerate
    \/ ClientDisconnect
    \/ AggNext(PlainMoves, AnyOrder)
    \/ AggCheck
    \/ AggFinish
    \/ GenNext(PlainMoves, AnyOrder)
    \/ GenExhausted
    \/ GenContent
    \/ GenTerminal
    \/ PublisherSend
    \/ TransportReceive

Spec == Init /\ [][Next]_vars

\* ------------------------------------------- an engine that lists by index
\* The same steps with an engine whose RequestOutputs list the choices in
\* ascending index.
NextByIndex ==
    \/ RejectEcho
    \/ RejectSuffix
    \/ InputError
    \/ RejectSamplingParams
    \/ StartGenerate
    \/ ClientDisconnect
    \/ AggNext(PlainMoves, ByIndex)
    \/ AggCheck
    \/ AggFinish
    \/ GenNext(PlainMoves, ByIndex)
    \/ GenExhausted
    \/ GenContent
    \/ GenTerminal
    \/ PublisherSend
    \/ TransportReceive

SpecByIndex == Init /\ [][NextByIndex]_vars

\* --------------------------------------------------- streams of richer texts
\* Streamed requests whose engine also emits replacement characters and cuts a
\* stop string off the text; the choices are listed by index.
TextRequests ==
    {r \in Requests(MaxTokens) :
        r.stream /\ ~r.echo /\ r.suffix = None /\ r.logprobs = None /\ r.n >= 1}

InitText == InitWith(TextRequests, {NoCall})

NextText ==
    \/ StartGenerate
    \/ GenNext(AllMoves, ByIndex)
    \/ GenExhausted
    \/ GenContent
    \/ GenTerminal
    \/ PublisherSend
    \/ TransportReceive

SpecText == InitText /\ [][NextText]_vars

\* The same streams when every task that can run does run: the engine yields
\* its next RequestOutput, the publisher pulls the generator and sends, and
\* the transport receives.
FairText ==
    /\ WF_vars(GenNext(AllMoves, ByIndex))
    /\ WF_vars(GenExhausted)
    /\ WF_vars(GenContent)
    /\ WF_vars(GenTerminal)
    /\ WF_vars(PublisherSend)
    /\ WF_vars(TransportReceive)

SpecTextFair == InitText /\ [][NextText]_vars /\ WF_vars(StartGenerate) /\ FairText

\* ------------------------------------- candidate maps that miss the token
\* Requests that pass the checks of lines 46-76, served by an engine that
\* samples two different tokens, emits replacement characters, and may report
\* a candidate map that does not hold the token it sampled; the choices are
\* listed by index.
RichMoves ==
    {[token_id |-> 1, piece |-> <<"a">>, stop |-> s, truncate |-> FALSE,
      candidates |-> Vocab] : s \in BOOLEAN}
    \cup {[token_id |-> 2, piece |-> <<RC>>, stop |-> s, truncate |-> FALSE,
           candidates |-> Vocab] : s \in BOOLEAN}
    \cup {[token_id |-> 1, piece |-> <<"a">>, stop |-> FALSE, truncate |-> FALSE,
           candidates |-> {2}]}

RichRequests ==
    {r \in Requests(MaxTokens) : ~r.echo /\ r.suffix = None /\ r.n >= 1}

InitRich == InitWith(RichRequests, {NoCall})

NextRich ==
    \/ StartGenerate
    \/ ClientDisconnect
    \/ AggNext(RichMoves, ByIndex)
    \/ AggCheck
    \/ AggFinish
    \/ GenNext(RichMoves, ByIndex)
    \/ GenExhausted
    \/ GenContent
    \/ GenTerminal
    \/ PublisherSend
    \/ TransportReceive

SpecRich == InitRich /\ [][NextRich]_vars

\* ------------------------------------------------ create_logprobs on its own
Seqs(S, n) == UNION {[1..k -> S] : k \in 0..n}
CandidateMaps == {[i \in D |-> 0 - i] : D \in (SUBSET Vocab) \ {{}}}

Calls ==
    [token_ids : Seqs(Vocab, MaxLen), id_logprobs : Seqs(CandidateMaps, MaxLen),
     initial_text_offset : 0..MaxOffset, result : {None}]

IdleRequest == [echo |-> FALSE, suffix |-> None, stream |-> FALSE, logprobs |-> None,
                n |-> 1, max_tokens |-> 1]

InitLogprobs == InitWith({IdleRequest}, Calls)

\* lines 134-159: one call of create_logprobs
CallCreateLogprobs ==
    /\ call.result = None
    /\ call' = [call EXCEPT !.result =
                   Some(create_logprobs(call.token_ids, call.id_logprobs,
                                        call.initial_text_offset))]
    /\ UNCHANGED <<request, prompt_token_ids, pc, http_status, request_id,
                   disconnected, res, num_snapshots, engine_vars, agg_vars,
                   stream_vars>>

\* the caller calls again, as the generator does, on the rest of the lists
CallAgain ==
    /\ call.result # None
    /\ call.token_ids # <<>>
    /\ call.id_logprobs # <<>>
    /\ \E offset \in 0..MaxOffset :
           call' = [token_ids |-> Tail(call.token_ids),
                    id_logprobs |-> Tail(call.id_logprobs),
                    initial_text_offset |-> offset,
                    result |-> None]
    /\ UNCHANGED <<request, prompt_token_ids, pc, http_status, request_id,
                   disconnected, res, num_snapshots, engine_vars, agg_vars,
                   stream_vars>>

NextLogprobs ==
    \/ CallCreateLogprobs
    \/ CallAgain

SpecLogprobs == InitLogprobs /\ [][NextLogprobs]_vars

\* ===================================================================== claims
Last(s) == s[Len(s)]
Positions == 1..Len(emitted)
IndexOf(p) == emitted[p].json.choices[1].index
TextOf(p) == emitted[p].json.choices[1].text
IsContent(p) == ~emitted[p].terminal
IsTerminal(p) == emitted[p].terminal

\* ----------------------------------------------------------------------- C1
\* the delta texts of the content chunks of choice i, concatenated in the
\* order of emission
RECURSIVE StreamedUpTo(_, _)
StreamedUpTo(i, p) ==
    IF p = 0 THEN <<>>
    ELSE StreamedUpTo(i, p - 1) \o
         (IF IsContent(p) /\ IndexOf(p) = i THEN TextOf(p) ELSE <<>>)
StreamedText(i) == StreamedUpTo(i, Len(emitted))

\* the entry of choice i in the last RequestOutput taken
LastEntry(i) ==
    res[1].outputs[CHOOSE k \in 1..Len(res[1].outputs) : res[1].outputs[k].index = i]

StreamEnded == pc = "streaming" /\ gen_pc = "done"

\* C1: when the generator has ended, for every choice whose cumulative text
\* only grew from snapshot to snapshot, the delta texts of its content chunks,
\* concatenated in emission order, are the text the non-streaming path builds
\* for that choice from the last snapshot (lines 107-118).
C1_DeltasReproduceFullText ==
    StreamEnded =>
        \A i \in Choices : monotonic[i] => StreamedText(i) = BuildChoice(LastEntry(i)).text

\* a stream of two snapshots or more has ended, and a choice whose raw text
\* holds a replacement character and a kept character was streamed
C1_Witness ==
    /\ StreamEnded
    /\ num_snapshots >= 2
    /\ \E i \in Choices :
        /\ monotonic[i]
        /\ \E k \in 1..Len(LastEntry(i).text) : LastEntry(i).text[k] = RC
        /\ StreamedText(i) # <<>>

\* ----------------------------------------------------------------------- C2
TerminalsOf(i) == {p \in Positions : IsTerminal(p) /\ IndexOf(p) = i}

\* C2: every choice of a streamed request gets its terminal chunk exactly
\* once over the whole snapshot sequence (never twice, and once when the
\* stream has ended), and only after a snapshot carried a finish reason for it.
C2_TerminalExactlyOnce ==
    pc = "streaming" =>
        \A i \in Choices :
            /\ Cardinality(TerminalsOf(i)) <= 1
            /\ StreamEnded => Cardinality(TerminalsOf(i)) = 1
            /\ TerminalsOf(i) # {} => seqs[i].finish_reason # "None"

\* ----------------------------------------------------------------------- C3
\* C3: once a disconnect check of the non-streaming loop has found the signal
\* set, engine.abort has been called with this request's id, exactly once, and
\* the request has ended with no Completion, whatever was received before.
C3_DisconnectAborts ==
    (checks # <<>> /\ Last(checks)) =>
        /\ pc = "aborted"
        /\ abort_calls = <<request_id[1]>>
        /\ generate_calls = <<request_id[1]>>
        /\ response = None
        /\ http_status = 0

\* the signal is found set at the check of the second snapshot, after the
\* first one was recorded in final_res
C3_Witness ==
    /\ pc = "aborted"
    /\ Len(checks) = 2
    /\ final_res # None
    /\ abort_calls # <<>>

C5_TerminalAfterLastContent ==
    \A p \in Positions :
        IsTerminal(p) =>
            /\ p > 1
            /\ IsContent(p - 1)
            /\ IndexOf(p - 1) = IndexOf(p)
            /\ \A q \in Positions : q > p => ~(IsContent(q) /\ IndexOf(q) = IndexOf(p))

\* ----------------------------------------------------------------------- C6
Unsupported == request.echo \/ Truthy(request.suffix)

\* C6: a request with echo true or a non-empty suffix never gets past the
\* checks of lines 46-53: it is answered with status 400, engine.generate and
\* engine.abort are never called for it and no snapshot is taken.
C6_UnsupportedRejected ==
    Unsupported =>
        /\ pc \in {"start", "rejected"}
        /\ pc = "rejected" => http_status = 400
        /\ generate_calls = <<>>
        /\ abort_calls = <<>>
        /\ num_snapshots = 0
        /\ request_id = None
        /\ response = None

\* a request without echo but with a non-empty suffix has been rejected
C6_Witness ==
    /\ pc = "rejected"
    /\ ~request.echo
    /\ Truthy(request.suffix)
    /\ http_status = 400

\* ----------------------------------------------------------------------- C7
RECURSIVE TokensOfChoices(_, _)
TokensOfChoices(outputs, k) ==
    IF k = 0 THEN 0 ELSE TokensOfChoices(outputs, k - 1) + Len(outputs[k].token_ids)

\* C7: in the Completion returned, total_tokens is prompt_tokens plus
\* completion_tokens, prompt_tokens is the number of prompt token ids of the
\* final snapshot, completion_tokens the number of token ids of its choices.
C7_UsageAccounting ==
    response # None =>
        LET usage == response[1].usage
            fr == final_res[1]
        IN /\ usage.total_tokens = usage.prompt_tokens + usage.completion_tokens
           /\ usage.prompt_tokens = Len(fr.prompt_token_ids)
           /\ usage.completion_tokens = TokensOfChoices(fr.outputs, Len(fr.outputs))
           /\ fr.prompt_token_ids = prompt_token_ids[1]
           /\ \A k \in 1..Len(fr.outputs) :
                  fr.outputs[k].token_ids = seqs[fr.outputs[k].index].token_ids

\* a Completion for two choices that generated 1 and 2 tokens from a prompt
\* of 2 tokens
C7_Witness ==
    /\ response # None
    /\ request.n = 2
    /\ Len(prompt_token_ids[1]) = 2
    /\ Len(seqs[0].token_ids) = 1
    /\ Len(seqs[1].token_ids) = 2
    /\ response[1].usage.total_tokens = 5

\* ----------------------------------------------------------------------- C8
\* C8: the record create_logprobs returns for a non-empty input has
\* text_offset[1] equal to initial_text_offset and every later offset equal to
\* the one before plus the length of the display text of the token before.
C8_TextOffsets ==
    (call.result # None /\ ~call.result[1].raised
        /\ call.token_ids # <<>> /\ call.id_logprobs # <<>>) =>
        LET text_offset == call.result[1].logprobs.text_offset
        IN /\ Len(text_offset) = Min(Len(call.token_ids), Len(call.id_logprobs))
           /\ text_offset[1] = call.initial_text_offset
           /\ \A i \in 2..Len(text_offset) :
                  text_offset[i] - text_offset[i - 1]
                      = Len(convert_ids_to_tokens(call.token_ids[i - 1]))

\* a record of three positions whose first token has a display text of two
\* characters, built from a base offset above zero
C8_Witness ==
    /\ call.result # None
    /\ ~call.result[1].raised
    /\ call.initial_text_offset = 2
    /\ Len(call.result[1].logprobs.text_offset) = 3
    /\ call.token_ids[1] = 2
    /\ call.result[1].logprobs.text_offset[2] = 4

\* ----------------------------------------------------------------------- C9
\* chunks the generator has yielded and the transport has not yet received
InFlight == Len(chan) + Len(pending)

C10_AbortOnlyOnDisconnect ==
    /\ abort_calls # <<>> =>
           /\ ~request.stream
           /\ checks # <<>>
           /\ Last(checks)
           /\ response = None
    /\ request.stream => (checks = <<>> /\ abort_calls = <<>> /\ response = None)
    /\ Len(abort_calls) <= 1

\* the client of a streamed request went away, the stream ran to its end and
\* nothing was aborted
C10_Witness ==
    /\ request.stream
    /\ disconnected
    /\ StreamEnded
    /\ emitted # <<>>
    /\ abort_calls = <<>>

\* ---------------------------------------------------------------------- C11
RECURSIVE WithoutRC(_)
WithoutRC(s) ==
    IF s = <<>> THEN <<>>
    ELSE (IF Head(s) = RC THEN <<>> ELSE <<Head(s)>>) \o WithoutRC(Tail(s))

\* C11: a Completion is returned only after every disconnect check found the
\* signal unset, and it is built from the last RequestOutput taken from the
\* engine: one choice per entry of that RequestOutput, in its order, with the
\* entry's index, its cumulative text without the replacement characters, and
\* the finish reason the engine gave ("stop" or "length", not a placeholder).
C11_FinalResponseFromLastSnapshot ==
    response # None =>
        LET fr == final_res[1]
            choices == response[1].choices
        IN /\ num_snapshots >= 1
           /\ final_res = res
           /\ \A k \in 1..Len(checks) : ~checks[k]
           /\ Len(choices) = Len(fr.outputs)
           /\ Len(choices) = request.n
           /\ \A k \in 1..Len(choices) :
                  LET output == fr.outputs[k]
                  IN /\ output = seqs[output.index]
                     /\ choices[k].index = output.index
                     /\ choices[k].text = WithoutRC(output.text)
                     /\ \A j \in 1..Len(choices[k].text) : choices[k].text[j] # RC
                     /\ choices[k].finish_reason = output.finish_reason
                     /\ choices[k].finish_reason \in {"stop", "length"}

\* a Completion for two choices after two snapshots: choice 0 stopped with a
\* replacement character in its raw text, choice 1 ran to max_tokens
C11_Witness ==
    /\ response # None
    /\ request.n = 2
    /\ num_snapshots = 2
    /\ seqs[0].finish_reason = "stop"
    /\ seqs[0].text = <<RC>>
    /\ response[1].choices[1].text = <<>>
    /\ seqs[1].finish_reason = "length"
    /\ response[1].choices[2].finish_reason = "length"
    /\ response[1].choices[2].text # <<>>

\* ---------------------------------------------------------------------- C12
\* C12: every chunk the generator yields, content or terminal, holds exactly
\* one choice whose finish_reason is "stop", whether the entry it encodes has
\* no finish reason, "stop" or "length".
C12_FinishReasonAlwaysStop ==
    \A p \in Positions :
        /\ Len(emitted[p].json.choices) = 1
        /\ emitted[p].json.choices[1].finish_reason = "stop"
        /\ emitted[p].finish_reason \in {"None", "stop", "length"}

\* chunks were yielded for a running entry, for an entry that ran to
\* max_tokens (its content and its terminal chunk) and for one that stopped
C12_Witness ==
    /\ \E p \in Positions : IsContent(p) /\ emitted[p].finish_reason = "None"
    /\ \E p \in Positions : IsContent(p) /\ emitted[p].finish_reason = "length"
    /\ \E p \in Positions : IsTerminal(p) /\ emitted[p].finish_reason = "length"
    /\ \E p \in Positions : IsTerminal(p) /\ emitted[p].finish_reason = "stop"

\* ---------------------------------------------------------------------- C13
\* position k of an entry: the token sampled is not in the candidate map
MissingCandidate(output, k) == output.token_ids[k] \notin DOMAIN output.logprobs[1][k]
HasMissingCandidate(output, from) ==
    \E k \in (from + 1)..Len(output.token_ids) : MissingCandidate(output, k)

\* C13: a token missing from its candidate map ends the request. Streaming:
\* the generator fails at the entry that brings the position, having yielded
\* no chunk for that entry, and yields nothing afterwards, so every position
\* covered by a chunk has its token in its map. Non-streaming: the handler
\* fails and returns no Completion. engine.generate is not called again.
C13_MissingCandidateFatal ==
    /\ Len(generate_calls) <= 1
    /\ (pc = "streaming" /\ gen_pc = "failed") =>
           /\ request.logprobs # None
           /\ HasMissingCandidate(Output, previous_num_tokens[Output.index])
           /\ \A p \in Positions :
                  \/ emitted[p].snapshot < num_snapshots
                  \/ emitted[p].snapshot = num_snapshots /\ emitted[p].position < pos
    /\ (pc = "streaming" /\ request.logprobs # None) =>
           /\ \A i \in Choices : \A k \in 1..previous_num_tokens[i] :
                  ~MissingCandidate(seqs[i], k)
           /\ (gen_pc = "entry" /\ emitted # <<>>) =>
                  (Last(emitted).snapshot = num_snapshots => Last(emitted).position < pos)
           /\ StreamEnded => \A i \in Choices : ~HasMissingCandidate(seqs[i], 0)
    /\ pc = "failed" =>
           /\ response = None
           /\ http_status # 200
           /\ request.logprobs # None
           /\ \E k \in 1..Len(final_res[1].outputs) :
                  HasMissingCandidate(final_res[1].outputs[k], 0)
    /\ (response # None /\ request.logprobs # None) =>
           \A k \in 1..Len(final_res[1].outputs) :
               ~HasMissingCandidate(final_res[1].outputs[k], 0)

\* the generator failed at the second entry of the second snapshot, after it
\* yielded chunks for the first snapshot and for the entry before
C13_Witness ==
    /\ pc = "streaming"
    /\ gen_pc = "failed"
    /\ num_snapshots = 2
    /\ pos = 2
    /\ Len(emitted) >= 3
    /\ Last(emitted).snapshot = 2
    /\ Last(emitted).position = 1

\* ---------------------------------------------------------------------- C14
\* the chunks of a stream are at most two per entry of each snapshot taken
StreamIsFinite ==
    /\ num_snapshots <= request.max_tokens
    /\ Len(emitted) <= 2 * request.n * num_snapshots

\* the generator has returned: the engine has no further snapshot and the last
\* chunk yielded is the one of the last entry of the last snapshot
EndedAtLastSnapshot ==
    StreamEnded =>
        /\ EngineDone
        /\ pending = None
        /\ Last(emitted).snapshot = num_snapshots
        /\ Last(emitted).position = request.n

\* C14: the chunk sequence of a stream is finite, and when every task that
\* can run does run, the generator eventually returns and every chunk is
\* received; it returns when the engine has no further snapshot, and yields
\* nothing afterwards.
C14_EncoderTerminates ==
    /\ []StreamIsFinite
    /\ []EndedAtLastSnapshot
    /\ [][StreamEnded => (emitted' = emitted /\ gen_pc' = gen_pc)]_vars
    /\ <>(StreamEnded /\ delivered = Len(emitted))

\* a stream of two choices and two snapshots has ended and every chunk
\* was received
C14_Witness ==
    /\ StreamEnded
    /\ request.n = 2
    /\ num_snapshots = 2
    /\ Len(emitted) >= 6
    /\ delivered = Len(emitted)

\* ---------------------------------------------------------------------- C15
\* the chunks yielded for entry k of snapshot s
ChunksOf(s, k) == {p \in Positions : emitted[p].snapshot = s /\ emitted[p].position = k}

\* the generator is past entry k of snapshot s
EntryEncoded(s, k) ==
    \/ s < num_snapshots
    \/ s = num_snapshots /\ (k < pos \/ gen_pc \in {"next", "done"})

\* C15: for every entry of every snapshot the generator is past, it has
\* yielded exactly one content chunk, holding one choice, and right after it
\* exactly one terminal chunk if the entry has a finish reason and none
\* otherwise; it has yielded nothing else (for the entry it is at: the content
\* chunk alone when the terminal chunk is still due, else nothing). A stream
\* of one choice and two snapshots ends with exactly three chunks.
C15_ChunksPerEntry ==
    pc = "streaming" =>
        /\ \A p \in Positions :
               /\ emitted[p].snapshot \in 1..num_snapshots
               /\ emitted[p].position \in 1..request.n
               /\ Len(emitted[p].json.choices) = 1
        /\ \A s \in 1..num_snapshots : \A k \in 1..request.n :
               LET content == {p \in ChunksOf(s, k) : IsContent(p)}
                   terminal == {p \in ChunksOf(s, k) : IsTerminal(p)}
               IN IF EntryEncoded(s, k)
                  THEN /\ Cardinality(content) = 1
                       /\ \A p \in content :
                              terminal = IF emitted[p].finish_reason # "None"
                                         THEN {p + 1} ELSE {}
                  ELSE /\ terminal = {}
                       /\ Cardinality(content) =
                              IF k = pos /\ gen_pc = "terminal" THEN 1 ELSE 0
        /\ (StreamEnded /\ request.n = 1 /\ num_snapshots = 2) => Len(emitted) = 3

\* a stream of one choice has ended after two snapshots, the second finished
C15_Witness ==
    /\ StreamEnded
    /\ request.n = 1
    /\ num_snapshots = 2
    /\ Len(emitted) = 3
    /\ emitted[1].finish_reason = "None"
    /\ IsContent(2)
    /\ IsTerminal(3)

\* ---------------------------------------------------------------------- C16
ChoiceOf(p) == emitted[p].json.choices[1]

\* C16: a terminal chunk comes right after the content chunk of the same
\* entry and repeats its delta text. When request.logprobs is present (0
\* included) its logprobs is a record of four empty sequences; when it is
\* absent, the terminal chunk has no logprobs field while every content chunk
\* has the field with the value null. (Likewise usage, which is null in
\* content chunks and left out of terminal chunks.)
C16_TerminalChunkEncoding ==
    \A p \in Positions :
        IF IsTerminal(p)
        THEN /\ p > 1
             /\ IsContent(p - 1)
             /\ emitted[p - 1].snapshot = emitted[p].snapshot
             /\ emitted[p - 1].position = emitted[p].position
             /\ IndexOf(p - 1) = IndexOf(p)
             /\ TextOf(p) = TextOf(p - 1)
             /\ "usage" \notin DOMAIN emitted[p].json
             /\ IF request.logprobs # None
                THEN /\ "logprobs" \in DOMAIN ChoiceOf(p)
                     /\ ChoiceOf(p).logprobs # None
                     /\ \A f \in {"text_offset", "token_logprobs", "tokens", "top_logprobs"} :
                            ChoiceOf(p).logprobs[1][f] = <<>>
                ELSE "logprobs" \notin DOMAIN ChoiceOf(p)
        ELSE /\ "usage" \in DOMAIN emitted[p].json
             /\ "logprobs" \in DOMAIN ChoiceOf(p)
             /\ request.logprobs = None <=> ChoiceOf(p).logprobs = None

\* a request without logprobs: a content chunk with a delta text and the
\* field logprobs as null, then its terminal chunk without the field
C16_Witness ==
    /\ request.logprobs = None
    /\ \E p \in Positions :
           /\ IsTerminal(p)
           /\ TextOf(p) # <<>>
           /\ "logprobs" \notin DOMAIN ChoiceOf(p)
           /\ ChoiceOf(p - 1).logprobs = None

\* ---------------------------------------------------------------------- C17
\* the step yields the content chunk of the entry the generator is at
ContentStep == pc = "streaming" /\ gen_pc = "entry" /\ Len(emitted') = Len(emitted) + 1

\* what the content chunk of `output` has to hold, from the state before the
\* step: the text beyond the old previous text, and one logprob position for
\* every token beyond the old token count, the first at the old text length
ExpectedOfEntry(output, choice) ==
    LET i == output.index
        old_text == previous_texts[i]
        old_num == previous_num_tokens[i]
        new == Len(output.token_ids) - old_num
    IN /\ choice.index = i
       /\ choice.text = SliceFrom(WithoutRC(output.text), Len(old_text))
       /\ IF request.logprobs = None THEN choice.logprobs = None
          ELSE LET lp == choice.logprobs[1]
               IN /\ new >= 0
                  /\ \A f \in DOMAIN lp : Len(lp[f]) = new
                  /\ \A k \in 1..new :
                         LET token_id == output.token_ids[old_num + k]
                             id_logprob == output.logprobs[1][old_num + k]
                         IN /\ lp.tokens[k] = convert_ids_to_tokens(token_id)
                            /\ lp.token_logprobs[k] = id_logprob[token_id]
                            /\ DOMAIN lp.top_logprobs[k] =
                                   {convert_ids_to_tokens(c) : c \in DOMAIN id_logprob}
                  /\ new >= 1 => lp.text_offset[1] = Len(old_text)

\* C17: the per-choice state changes only in the step that yields the content
\* chunk of an entry (after lines 165-166 set it up), once per entry. That
\* chunk is computed from the state before the step; after the step the
\* state of the entry's choice is the entry's text without replacement
\* characters and its number of tokens, and the state of every other choice
\* is as before.
C17_StateUpdatedAfterDelta ==
    [][IF ContentStep
       THEN LET output == Output
                i == output.index
            IN /\ ExpectedOfEntry(output, emitted'[Len(emitted')].json.choices[1])
               /\ ~emitted'[Len(emitted')].terminal
               /\ previous_texts'[i] = WithoutRC(output.text)
               /\ previous_num_tokens'[i] = Len(output.token_ids)
               /\ \A j \in Choices \ {i} :
                      /\ previous_texts'[j] = previous_texts[j]
                      /\ previous_num_tokens'[j] = previous_num_tokens[j]
       ELSE \/ pc = "start"
            \/ /\ previous_texts' = previous_texts
               /\ previous_num_tokens' = previous_num_tokens]_vars

\* the second entry of choice 0 was encoded from the state its first entry
\* left: one new token reported at offset 1, while choice 1 is still in the
\* state of the first snapshot
C17_Witness ==
    /\ pc = "streaming"
    /\ request.n = 2
    /\ request.logprobs # None
    /\ num_snapshots = 2
    /\ pos = 1
    /\ gen_pc = "terminal"
    /\ previous_num_tokens = [c \in Choices |-> IF c = 0 THEN 2 ELSE 1]
    /\ previous_texts[0] = <<"a", "a">>
    /\ ChoiceOf(Len(emitted)).text = <<"a">>
    /\ ChoiceOf(Len(emitted)).logprobs[1].text_offset = <<1>>

\* ---------------------------------------------------------------------- C18
NoCheckFoundDisconnect == \A k \in 1..Len(checks) : ~checks[k]

\* C18: in the non-streaming path there is one disconnect check per snapshot
\* taken, made after the snapshot is taken and before it becomes final_res.
\* The loop goes on, and a Completion is built, only from a final_res whose
\* check found the signal unset; a check that finds it set ends the request
\* with the snapshot unrecorded. A disconnect after the last check changes
\* nothing: the Completion is returned and nothing is aborted.
C18_CheckOncePerSnapshot ==
    ~request.stream =>
        /\ Len(checks) = IF pc = "check" THEN num_snapshots - 1 ELSE num_snapshots
        /\ pc = "check" => (res # None /\ final_res # res /\ NoCheckFoundDisconnect)
        /\ pc \in {"aggregating", "completed", "failed"} =>
               /\ NoCheckFoundDisconnect
               /\ abort_calls = <<>>
               /\ num_snapshots >= 1 => final_res = res
        /\ pc = "aborted" =>
               /\ Last(checks)
               /\ \A k \in 1..(Len(checks) - 1) : ~checks[k]
               /\ final_res # res
               /\ response = None
        /\ response # None => (pc = "completed" /\ final_res = res)
        /\ (pc = "aggregating" /\ num_snapshots >= 1) => final_res # None

\* the client went away after the check of the last of two snapshots: the
\* Completion is returned and nothing is aborted
C18_Witness ==
    /\ ~request.stream
    /\ response # None
    /\ disconnected
    /\ num_snapshots = 2
    /\ Len(checks) = 2
    /\ abort_calls = <<>>

\* ---------------------------------------------------------------------- C19
\* field f of the logprob records of the content chunks of choice i,
\* concatenated in the order of emission
RECURSIVE StreamedLogprobsUpTo(_, _, _)
StreamedLogprobsUpTo(i, f, p) ==
    IF p = 0 THEN <<>>
    ELSE StreamedLogprobsUpTo(i, f, p - 1) \o
         (IF IsContent(p) /\ IndexOf(p) = i THEN ChoiceOf(p).logprobs[1][f] ELSE <<>>)
StreamedLogprobs(i, f) == StreamedLogprobsUpTo(i, f, Len(emitted))

\* C19: when a stream with logprobs has ended, the tokens and the
\* token_logprobs of the content chunks of each choice, concatenated, are
\* those of the record lines 109-111 build for the choice from the last
\* snapshot: one position per generated token, none twice. (The engine only
\* appends to token_ids and logprobs.)
C19_StreamedLogprobsMatch ==
    (StreamEnded /\ request.logprobs # None) =>
        \A i \in Choices :
            LET whole == BuildChoice(LastEntry(i)).logprobs[1]
            IN /\ StreamedLogprobs(i, "tokens") = whole.tokens
               /\ StreamedLogprobs(i, "token_logprobs") = whole.token_logprobs
               /\ Len(whole.tokens) = Len(seqs[i].token_ids)
               /\ \A k \in 1..Len(whole.tokens) :
                      whole.tokens[k] = convert_ids_to_tokens(seqs[i].token_ids[k])

\* a stream with logprobs has ended whose choice 0 got token 1 in the first
\* snapshot and token 2 in the second, while choice 1 finished in the first
\* and was listed again in the second
C19_Witness ==
    /\ StreamEnded
    /\ request.logprobs # None
    /\ request.n = 2
    /\ num_snapshots = 2
    /\ seqs[0].token_ids = <<1, 2>>
    /\ Len(seqs[1].token_ids) = 1
    /\ StreamedLogprobs(0, "tokens") = <<convert_ids_to_tokens(1), convert_ids_to_tokens(2)>>
    /\ StreamedLogprobs(1, "token_logprobs") = <<0 - 1>>

\* ---------------------------------------------------------------------- C20
\* the display lengths of the first k tokens
RECURSIVE DisplayLength(_, _)
DisplayLength(token_ids, k) ==
    IF k = 0 THEN 0
    ELSE DisplayLength(token_ids, k - 1) + Len(convert_ids_to_tokens(token_ids[k]))

\* C20: for lists of equal length, create_logprobs raises exactly when a
\* token is missing from its candidate map, and the record it returns
\* otherwise has four sequences of the length of the input whose position k
\* is made from position k of the input; for empty lists it is the record of
\* four empty sequences. This holds for every call, whatever was called
\* before.
C20_RecordShape ==
    (call.result # None /\ Len(call.token_ids) = Len(call.id_logprobs)) =>
        LET r == call.result[1]
            lp == r.logprobs
            n == Len(call.token_ids)
        IN /\ r.raised <=> \E k \in 1..n : call.token_ids[k] \notin DOMAIN call.id_logprobs[k]
           /\ n = 0 => lp = EmptyLogprobs
           /\ ~r.raised =>
                  /\ DOMAIN lp = {"text_offset", "token_logprobs", "tokens", "top_logprobs"}
                  /\ \A f \in DOMAIN lp : Len(lp[f]) = n
                  /\ \A k \in 1..n :
                         LET token_id == call.token_ids[k]
                             id_logprob == call.id_logprobs[k]
                         IN /\ lp.tokens[k] = convert_ids_to_tokens(token_id)
                            /\ lp.token_logprobs[k] = id_logprob[token_id]
                            /\ lp.text_offset[k] = call.initial_text_offset
                                                       + DisplayLength(call.token_ids, k - 1)
                            /\ DOMAIN lp.top_logprobs[k] =
                                   {convert_ids_to_tokens(c) : c \in DOMAIN id_logprob}
                            /\ \A c \in DOMAIN id_logprob :
                                   lp.top_logprobs[k][convert_ids_to_tokens(c)] = id_logprob[c]

\* a record of three positions for the tokens 2, 1, 2, the second with a
\* candidate map that holds the token alone
C20_Witness ==
    /\ call.result # None
    /\ ~call.result[1].raised
    /\ call.token_ids = <<2, 1, 2>>
    /\ Len(call.id_logprobs) = 3
    /\ DOMAIN call.id_logprobs[2] = {1}
    /\ Len(call.result[1].logprobs.top_logprobs) = 3

====
